---- MODULE Spec2Model ----
(***************************************************************************)
(* Model of hunspell::aff_parser (src/src/hunspell/aff_parser.cxx): the    *)
(* low level parser of .aff files, which indexes every line                *)
(* "COMMAND [PARAMETAR_LINE]" of a stream under the uppercased command.    *)
(*                                                                         *)
(* A string is a sequence of one-character strings.  A stream (the         *)
(* std::istream handed to parse, and the std::stringstream built on each   *)
(* line) is a record: its characters, its read position, its three state   *)
(* bits, and the offset at which the underlying buffer reports a hard      *)
(* error (NoFail when it never does).                                      *)
(***************************************************************************)
EXTENDS Integers, Sequences, FiniteSets, TLC

VARIABLES
    table,      \* aff_parser::table: command -> sequence of parameter lines
    op,         \* the member function called last ("init" after construction,
                \* "open" when the caller has made a stream ready to parse)
    in,         \* the stream the caller holds, as it was handed to parse
    command,    \* is_command_present / get_command_parametars: the argument
    ret,        \* parse / is_command_present: the value returned
    vec,        \* get_command_parametars: the vector returned
    view        \* data: the map returned
                \* (the last four hold what the last call took and gave, and
                \* their initial values after a call they play no part in)

vars == <<table, op, in, command, ret, vec, view>>

----------------------------------------------------------------------------
\* Bounds of the model.

\* Spec: the characters already stored in the index plus the characters of
\* the stream handed to parse.
MaxBudget == 5

\* SpecFile: the characters of the one stream parsed into a fresh parser.
MaxFileLen == 7

----------------------------------------------------------------------------
\* Characters.

NL == "\n"
SP == " "
HASH == "#"

\* The characters streams are made of: a lower case and an upper case letter,
\* a blank, the comment marker and the line terminator.
Alphabet == {"a", "A", SP, HASH, NL}

\* std::isspace in the "C" locale.
isspace(c) == c \in {SP, NL, "\t", "\r", "\f"}

toupper_id(c) == c

\* std::toupper in the "C" locale, on the characters of Alphabet.
toupper(c) == IF c = "a" THEN "A" ELSE c

----------------------------------------------------------------------------
\* Streams.

NoFail == -1

\* A readable stream over buf whose buffer fails at offset failAt.
Stream(buf, failAt) ==
    [buf |-> buf, pos |-> 0, eofbit |-> FALSE, failbit |-> FALSE,
     badbit |-> FALSE, failAt |-> failAt]

\* std::stringstream ss(line)
stringstream(line) == Stream(line, NoFail)

good(s) == ~s.eofbit /\ ~s.failbit /\ ~s.badbit
fail(s) == s.failbit \/ s.badbit
eof(s) == s.eofbit

\* The stream buffer at the read position: a hard error, the end, or a character.
AtError(s) == s.pos = s.failAt
AtEnd(s) == s.pos >= Len(s.buf)
sgetc(s) == s.buf[s.pos + 1]

\* getline's extraction loop: str is what was stored so far, n the number of
\* characters extracted (the delimiter counts, and is not stored).
RECURSIVE getline_scan(_, _, _)
getline_scan(s, str, n) ==
    IF AtError(s) THEN
        [s |-> [s EXCEPT !.badbit = TRUE, !.failbit = (n = 0)], str |-> str]
    ELSE IF AtEnd(s) THEN
        [s |-> [s EXCEPT !.eofbit = TRUE, !.failbit = (n = 0)], str |-> str]
    ELSE IF sgetc(s) = NL THEN
        [s |-> [s EXCEPT !.pos = @ + 1], str |-> str]
    ELSE
        getline_scan([s EXCEPT !.pos = @ + 1], Append(str, sgetc(s)), n + 1)

\* std::getline(s, str): a stream that is not good fails and leaves str alone.
getline(s, str) ==
    IF ~good(s) THEN [s |-> [s EXCEPT !.failbit = TRUE], str |-> str]
    ELSE getline_scan(s, <<>>, 0)

\* The extraction loop of std::ws.
RECURSIVE ws_scan(_)
ws_scan(s) ==
    IF AtError(s) THEN [s EXCEPT !.badbit = TRUE]
    ELSE IF AtEnd(s) THEN [s EXCEPT !.eofbit = TRUE]
    ELSE IF isspace(sgetc(s)) THEN ws_scan([s EXCEPT !.pos = @ + 1])
    ELSE s

\* s >> std::ws
ws(s) ==
    IF ~good(s) THEN [s EXCEPT !.failbit = TRUE]
    ELSE ws_scan(s)

\* s.peek(): the next character, or "" for Traits::eof().
peek(s) ==
    IF ~good(s) \/ AtError(s) \/ AtEnd(s) THEN "" ELSE sgetc(s)

\* The extraction loop of operator>>(istream&, string&).
RECURSIVE token_scan(_, _)
token_scan(s, str) ==
    IF AtError(s) THEN
        [s |-> [s EXCEPT !.badbit = TRUE, !.failbit = (str = <<>>)], str |-> str]
    ELSE IF AtEnd(s) THEN
        [s |-> [s EXCEPT !.eofbit = TRUE, !.failbit = (str = <<>>)], str |-> str]
    ELSE IF isspace(sgetc(s)) THEN
        [s |-> [s EXCEPT !.failbit = (str = <<>>)], str |-> str]
    ELSE
        token_scan([s EXCEPT !.pos = @ + 1], Append(str, sgetc(s)))

\* s >> str: skips leading whitespace, then stores the run of characters up
\* to the next whitespace or the end.
extract(s, str) ==
    IF ~good(s) THEN [s |-> [s EXCEPT !.failbit = TRUE], str |-> str]
    ELSE LET t == ws_scan(s)
         IN  IF ~good(t) THEN [s |-> [t EXCEPT !.failbit = TRUE], str |-> str]
             ELSE token_scan(t, <<>>)

----------------------------------------------------------------------------
\* The index.

EmptyTable == [k \in {} |-> <<>>]

\* table.clear()
clear_keep(t) == t

clear(t) == EmptyTable

\* table[k], which creates the entry on first sight.
index(t, k) ==
    IF k \in DOMAIN t THEN t ELSE [x \in DOMAIN t \cup {k} |-> IF x = k THEN <<>> ELSE t[x]]

\* vec.push_back(x), vec being table[k].
push_front(t, k, x) == [t EXCEPT ![k] = <<x>> \o @]

push_back(t, k, x) == [t EXCEPT ![k] = Append(@, x)]

upper_first(str) == [i \in 1..Len(str) |-> IF i = 1 THEN toupper(str[i]) ELSE str[i]]

\* for (auto & c: command) c = toupper(c);
upper(str) == [i \in 1..Len(str) |-> toupper(str[i])]

----------------------------------------------------------------------------
\* aff_parser::parse

\* if (in.fail() && !in.eof())
read_failed_any(s) == fail(s)

read_failed(s) == fail(s) /\ ~eof(s)

\* if (ss.eof() || ss.peek() == '#'), after the first ss >> ws
skip_line_blank(ss) == eof(ss)

skip_line(ss) == eof(ss) \/ peek(ss) = HASH

\* if (ss.eof()), after the second ss >> ws
nothing_more_hash(ss) == eof(ss) \/ peek(ss) = HASH

nothing_more(ss) == eof(ss)

\* string line; string command; string parametar_line;
Locals == [line |-> <<>>, command |-> <<>>, parametar_line |-> <<>>]

\* Lines 95-108: what one line that was read does to the index.  The result
\* holds the index and the three local strings.
process_line(t, loc) ==
    LET ss1 == ws(stringstream(loc.line))
    IN  IF skip_line(ss1) THEN [table |-> t, loc |-> loc]
        ELSE
            LET e == extract(ss1, loc.command)
                cmd == upper(e.str)
                t1 == index(t, cmd)
                ss2 == ws(e.s)
            IN  IF nothing_more(ss2) THEN
                    [table |-> t1, loc |-> [loc EXCEPT !.command = cmd]]
                ELSE
                    LET g == getline(ss2, loc.parametar_line)
                    IN  [table |-> push_back(t1, cmd, g.str),
                         loc |-> [loc EXCEPT !.command = cmd,
                                             !.parametar_line = g.str]]

\* The do ... while (!in.eof()) loop of lines 89-109 and the returns of lines
\* 93 and 111.  The result holds the index, the stream and the value returned.
RECURSIVE parse_loop(_, _, _)
parse_loop(t, s, loc) ==
    LET g == getline(s, loc.line)
    IN  IF read_failed(g.s) THEN
            [table |-> clear(t), in |-> g.s, ret |-> FALSE]
        ELSE
            LET r == process_line(t, [loc EXCEPT !.line = g.str])
            IN  IF ~eof(g.s) THEN parse_loop(r.table, g.s, r.loc)
                ELSE [table |-> r.table, in |-> g.s, ret |-> TRUE]

parse_reset(t, s) == parse_loop(EmptyTable, s, Locals)

parse(t, s) == parse_loop(t, s, Locals)

----------------------------------------------------------------------------
\* The queries.

is_command_present_nonempty(t, c) == c \in DOMAIN t /\ t[c] # <<>>

\* return table.count(command);
is_command_present(t, c) == c \in DOMAIN t

\* table[command] in place of table.find(command)
get_command_parametars_insert(t, c) == [table |-> index(t, c), vec |-> index(t, c)[c]]

\* The result holds the index after the call and the vector returned.
get_command_parametars(t, c) ==
    [table |-> t, vec |-> IF c \in DOMAIN t THEN t[c] ELSE <<>>]

\* return table;
data(t) == t

----------------------------------------------------------------------------
\* The inputs.

\* The strings of k characters.
StringsOfLen(k) == [1..k -> Alphabet]

\* The streams over the characters b that a caller can hand to parse: one that
\* reads to its end, one whose buffer fails at each offset (up to and including
\* its end), one that failed to open (failbit), and one that was read to its
\* end before (eofbit).
StreamsOver(b) ==
    {Stream(b, NoFail)}
    \cup {Stream(b, f) : f \in 0..Len(b)}
    \cup {[Stream(b, NoFail) EXCEPT !.failbit = TRUE],
          [Stream(b, NoFail) EXCEPT !.pos = Len(b), !.eofbit = TRUE]}

\* The caller holds no stream.
NoStream == [closed |-> TRUE]

\* The names the queries are called with.
Names == {<<"A">>, <<"a">>, <<"A", "A">>}

\* The characters the index holds.
RECURSIVE SumLen(_)
SumLen(ss) == IF ss = <<>> THEN 0 ELSE Len(Head(ss)) + SumLen(Tail(ss))

RECURSIVE WeightOf(_, _)
WeightOf(t, ks) ==
    IF ks = {} THEN 0
    ELSE LET k == CHOOSE x \in ks : TRUE
         IN  Len(k) + SumLen(t[k]) + WeightOf(t, ks \ {k})

Weight(t) == WeightOf(t, DOMAIN t)

----------------------------------------------------------------------------
\* The state machine: a parser and the calls made on it, one at a time.

Init ==
    /\ table = EmptyTable
    /\ op = "init"
    /\ in = NoStream
    /\ command = <<>>
    /\ ret = TRUE
    /\ vec = <<>>
    /\ view = EmptyTable

Called(o, s, c, r, v, d) ==
    /\ op' = o
    /\ in' = s
    /\ command' = c
    /\ ret' = r
    /\ vec' = v
    /\ view' = d

\* The caller makes a stream ready (std::stringstream ss(test); in main).  It
\* holds one stream at a time.
Open ==
    /\ in = NoStream
    /\ \E k \in 0..(MaxBudget - Weight(table)) :
           \E b \in StringsOfLen(k) :
               \E s \in StreamsOver(b) : Called("open", s, <<>>, TRUE, <<>>, EmptyTable)
    /\ table' = table

\* p.parse(ss)
Parse ==
    /\ op = "open"
    /\ LET r == parse(table, in)
       IN  /\ table' = r.table
           /\ Called("parse", in, <<>>, r.ret, <<>>, EmptyTable)

\* The caller lets go of the stream it had parsed, before its next call.
Close ==
    /\ op = "parse" /\ in # NoStream
    /\ in' = NoStream
    /\ UNCHANGED <<table, op, command, ret, vec, view>>

Clear ==
    /\ in = NoStream
    /\ table' = clear(table)
    /\ Called("clear", NoStream, <<>>, TRUE, <<>>, EmptyTable)

IsCommandPresent ==
    \E c \in Names :
        /\ in = NoStream
        /\ table' = table
        /\ Called("is_command_present", NoStream, c, is_command_present(table, c),
                  <<>>, EmptyTable)

GetCommandParametars ==
    \E c \in Names :
        LET r == get_command_parametars(table, c)
        IN  /\ in = NoStream
            /\ table' = r.table
            /\ Called("get_command_parametars", NoStream, c, TRUE, r.vec, EmptyTable)

Data ==
    /\ in = NoStream
    /\ table' = table
    /\ Called("data", NoStream, <<>>, TRUE, <<>>, data(table))

Next ==
    \/ Open
    \/ Parse
    \/ Close
    \/ Clear
    \/ IsCommandPresent
    \/ GetCommandParametars
    \/ Data

Spec == Init /\ [][Next]_vars

\* One file, read to its end, parsed by a fresh parser.
OpenFile ==
    /\ op = "init"
    /\ \E k \in 0..MaxFileLen :
           \E b \in StringsOfLen(k) :
               Called("open", Stream(b, NoFail), <<>>, TRUE, <<>>, EmptyTable)
    /\ table' = table

NextFile ==
    \/ OpenFile
    \/ Parse

SpecFile == Init /\ [][NextFile]_vars

----------------------------------------------------------------------------
\* The .aff format as the class documents it, stated on the text of a file
\* without reference to the reading code: its lines, and on each line the
\* command and the parameter line.

LowerCase == {"a"}

Capital(c) == IF c = "a" THEN "A" ELSE c

AllCapitals(str) == [i \in 1..Len(str) |-> Capital(str[i])]

\* The characters of stream s that were not read yet.
Unread(s) == SubSeq(s.buf, s.pos + 1, Len(s.buf))

\* The lines of text b: what stands between its line terminators.  A text
\* that ends with a line terminator has an empty last line.
RECURSIVE Lines(_)
Lines(b) ==
    LET N == {i \in 1..Len(b) : b[i] = NL}
    IN  IF N = {} THEN <<b>>
        ELSE LET i == CHOOSE x \in N : \A y \in N : x <= y
             IN  <<SubSeq(b, 1, i - 1)>> \o Lines(SubSeq(b, i + 1, Len(b)))

\* The first position from i on of line l that holds no whitespace, 0 if none.
FirstText(l, i) ==
    LET T == {j \in i..Len(l) : ~isspace(l[j])}
    IN  IF T = {} THEN 0 ELSE CHOOSE j \in T : \A k \in T : j <= k

IsBlank(l) == FirstText(l, 1) = 0
IsComment(l) == FirstText(l, 1) # 0 /\ l[FirstText(l, 1)] = HASH

\* The last position of the token of line l that starts at position i.
TokenEnd(l, i) ==
    CHOOSE j \in i..Len(l) :
        /\ \A k \in i..j : ~isspace(l[k])
        /\ j = Len(l) \/ isspace(l[j + 1])

\* What line l says: whether it is significant and, if it is, its token, the
\* command (the token in capitals), whether parameter text follows the token
\* and the whitespace behind it, and that text, which ends where the line ends.
Directive(l) ==
    LET i == FirstText(l, 1)
    IN  IF i = 0 \/ l[i] = HASH THEN
            [sig |-> FALSE, token |-> <<>>, command |-> <<>>, has |-> FALSE, param |-> <<>>]
        ELSE
            LET j == TokenEnd(l, i)
                p == FirstText(l, j + 1)
            IN  [sig |-> TRUE, token |-> SubSeq(l, i, j),
                 command |-> AllCapitals(SubSeq(l, i, j)),
                 has |-> p # 0,
                 param |-> IF p # 0 THEN SubSeq(l, p, Len(l)) ELSE <<>>]

\* What the lines of text b say, in the order of the lines.
Directives(b) == LET ls == Lines(b) IN [i \in 1..Len(ls) |-> Directive(ls[i])]

\* The commands among directives ds, and the parameter texts of command name
\* in the order of the lines.
CommandsIn(ds) == {ds[i].command : i \in {j \in 1..Len(ds) : ds[j].sig}}

RECURSIVE ParamsIn(_, _)
ParamsIn(ds, name) ==
    IF ds = <<>> THEN <<>>
    ELSE (IF Head(ds).sig /\ Head(ds).command = name /\ Head(ds).has
          THEN <<Head(ds).param>> ELSE <<>>)
         \o ParamsIn(Tail(ds), name)

\* What the index holds for name: nothing when the name is no key.
Stored(t, name) == IF name \in DOMAIN t THEN t[name] ELSE <<>>

\* The stream handed to parse has a line read fail for another reason than
\* the end of the stream: its buffer fails at an offset parse reads up to, or
\* it came with failbit or badbit and not at its end.
HardFailure(s) ==
    \/ s.failAt # NoFail
    \/ (s.failbit \/ s.badbit) /\ ~s.eofbit

\* The state right after a parse call, the caller still holding the stream.
AfterParse == op = "parse" /\ in # NoStream

\* The step is a parse call.
ParseStep == op = "open" /\ op' = "parse"

IsPrefix(u, v) == Len(u) <= Len(v) /\ SubSeq(v, 1, Len(u)) = u

----------------------------------------------------------------------------
\* C1: a parse call in which a line read fails for another reason than the
\* end of the stream returns false and leaves the index empty, whatever this
\* call and earlier calls had indexed; no call returns false and leaves a
\* non-empty index.
C1_FailureEmptiesIndex ==
    /\ AfterParse /\ HardFailure(in) => ~ret /\ table = EmptyTable
    /\ op = "parse" /\ ~ret => table = EmptyTable

\* A call failed at an offset behind a complete line that carries a command
\* with parameter text.
C1_Witness ==
    /\ AfterParse /\ ~ret /\ in.failAt > 0
    /\ \E q \in 1..in.failAt :
           /\ in.buf[q] = NL
           /\ LET ds == Directives(SubSeq(in.buf, 1, q - 1))
              IN  \E i \in 1..Len(ds) : ds[i].has

\* C2: after a successful parse of a file into an empty index, every command
\* has one entry per line that carries it (in any letter case) with parameter
\* text, in the order of the lines, each the text from the first character
\* that is no whitespace after the token to the end of the line; lines
\* without parameter text add none, and equal lines are all kept.
C2_EntriesInFileOrder ==
    AfterParse /\ ret =>
        LET ds == Directives(in.buf)
        IN  /\ DOMAIN table = CommandsIn(ds)
            /\ \A k \in DOMAIN table \cup Names : Stored(table, k) = ParamsIn(ds, k)

\* A command with two different entries, from a file whose last line has no
\* line terminator.
C2_Witness ==
    /\ AfterParse /\ ret
    /\ \E k \in DOMAIN table :
           Len(table[k]) = 2 /\ table[k][1] # table[k][2] /\ in.buf[Len(in.buf)] # NL

\* C3: a command whose only lines have no parameter text is present with an
\* empty vector of parameter lines, and a name no line carries is not present.
C3_PresentWithoutParameters ==
    AfterParse /\ ret =>
        LET ds == Directives(in.buf)
            withText == {ds[i].command : i \in {j \in 1..Len(ds) : ds[j].has}}
        IN  \A k \in CommandsIn(ds) \cup Names :
                /\ k \in CommandsIn(ds) \ withText =>
                       /\ is_command_present(table, k)
                       /\ get_command_parametars(table, k).vec = <<>>
                /\ k \notin CommandsIn(ds) =>
                       /\ ~is_command_present(table, k)
                       /\ get_command_parametars(table, k).vec = <<>>

\* A command followed by blanks only is a key, and another name is none.
C3_Witness ==
    /\ AfterParse /\ ret
    /\ \E k \in DOMAIN table :
           /\ table[k] = <<>>
           /\ \E i \in 1..Len(in.buf) - 1 :
                  in.buf[i] \in {"a", "A"} /\ in.buf[i + 1] = SP
    /\ \E n \in Names : n \notin DOMAIN table

\* C4: tokens that differ in letter case only are indexed under one key, the
\* token in capitals, which receives their parameter lines in file order; no
\* key in another casing is created.
C4_OneKeyForAllCasings ==
    AfterParse /\ ret =>
        LET ds == Directives(in.buf)
            sig == {i \in 1..Len(ds) : ds[i].sig}
        IN  \A i \in sig :
                LET K == {j \in sig : AllCapitals(ds[j].token) = AllCapitals(ds[i].token)
                                      /\ ds[j].has}
                    key == AllCapitals(ds[i].token)
                IN  /\ key \in DOMAIN table
                    /\ ds[i].token # key => ds[i].token \notin DOMAIN table
                    /\ Len(table[key]) = Cardinality(K)
                    /\ i \in K =>
                           table[key][Cardinality({j \in K : j <= i})] = ds[i].param

\* Two lines whose tokens differ in case only, each with its own parameter.
C4_Witness ==
    /\ AfterParse /\ ret
    /\ LET ds == Directives(in.buf)
       IN  \E i, j \in 1..Len(ds) :
               /\ i < j /\ ds[i].has /\ ds[j].has
               /\ ds[i].token # ds[j].token
               /\ ds[i].command = ds[j].command
               /\ ds[i].param # ds[j].param

\* C5: a successful parse call keeps every key and appends to each key's
\* sequence the parameter lines of its stream, in the stream's order; a key
\* disappears or a sequence shrinks only in a clear or a parse that fails.
C5_ParseAccumulates ==
    [][/\ ParseStep /\ ret' =>
              LET ds == Directives(Unread(in'))
              IN  /\ DOMAIN table' = DOMAIN table \cup CommandsIn(ds)
                  /\ \A k \in DOMAIN table' :
                         table'[k] = Stored(table, k) \o ParamsIn(ds, k)
       /\ ~(op' = "clear") /\ ~(ParseStep /\ ~ret') =>
              \A k \in DOMAIN table :
                  k \in DOMAIN table' /\ IsPrefix(table[k], table'[k])]_vars

\* A key holds an entry of an earlier call followed by an entry of this call.
C5_Witness ==
    /\ AfterParse /\ ret
    /\ \E k \in DOMAIN table :
           LET new == ParamsIn(Directives(Unread(in)), k)
           IN  /\ new # <<>>
               /\ Len(table[k]) > Len(new)
               /\ table[k][1] # table[k][Len(table[k])]

\* C6: a file whose lines are all blank or comments (however indented) parses
\* with success and leaves the index empty.
C6_BlankAndCommentOnly ==
    AfterParse /\ (\A i \in 1..Len(Lines(in.buf)) :
                       IsBlank(Lines(in.buf)[i]) \/ IsComment(Lines(in.buf)[i]))
        => ret /\ table = EmptyTable

\* An indented comment with text, followed by a line of blanks.
C6_Witness ==
    /\ AfterParse /\ ret /\ table = EmptyTable
    /\ LET ls == Lines(in.buf)
       IN  /\ Len(ls) = 2
           /\ IsComment(ls[1]) /\ ls[1][1] = SP /\ ls[1][Len(ls[1])] # HASH
           /\ IsBlank(ls[2]) /\ Len(ls[2]) > 0

\* C7: on a significant line a '#' behind the command token (and so in the
\* parameter text, which starts at the first character behind the token that
\* is no whitespace) starts no comment: the entry of the line is its whole
\* parameter text, the '#' and what follows it included.
C7_HashInParameterKept ==
    AfterParse /\ ret =>
        LET ds == Directives(in.buf)
        IN  \A i \in 1..Len(ds) :
                (\E x \in 1..Len(ds[i].param) : ds[i].param[x] = HASH) =>
                    LET n == Cardinality({j \in 1..i :
                                 ds[j].has /\ ds[j].command = ds[i].command})
                    IN  /\ Len(Stored(table, ds[i].command)) >= n
                        /\ Stored(table, ds[i].command)[n] = ds[i].param

\* An entry that starts with '#' and goes on behind it.
C7_Witness ==
    /\ AfterParse /\ ret
    /\ \E k \in DOMAIN table :
           \E n \in 1..Len(table[k]) :
               table[k][n][1] = HASH /\ Len(table[k][n]) >= 2

\* C8: parse returns true for every stream read to its end without a hard
\* failure, the empty stream included (which leaves the index as it was), and
\* returns false only on a hard failure.
C8_SuccessUnlessHardFailure ==
    [][ParseStep =>
           /\ ret' <=> ~HardFailure(in')
           /\ ~HardFailure(in') /\ Unread(in') = <<>> => table' = table]_vars

\* The empty stream parsed with success into an index that holds something.
C8_Witness ==
    /\ AfterParse /\ ret /\ in.buf = <<>> /\ ~in.eofbit
    /\ table # EmptyTable

\* C9: every key of the index is non-empty and holds no lower case letter, so
\* a name with a lower case letter is never present and has no parameters.
C9_KeysUppercase ==
    /\ \A k \in DOMAIN table : k # <<>> /\ \A i \in 1..Len(k) : k[i] \notin LowerCase
    /\ \A name \in Names :
           (\E i \in 1..Len(name) : name[i] \in LowerCase) =>
               /\ ~is_command_present(table, name)
               /\ get_command_parametars(table, name).vec = <<>>

\* A token with a lower case letter behind its first character was indexed.
C9_Witness ==
    /\ AfterParse /\ ret
    /\ LET ds == Directives(Unread(in))
       IN  \E i \in 1..Len(ds) :
               /\ Len(ds[i].token) >= 2 /\ ds[i].token[2] \in LowerCase
               /\ ds[i].command \in DOMAIN table

Queries == {"is_command_present", "get_command_parametars", "data"}

\* C10: the queries leave the index as it is; get_command_parametars of a
\* name that is no key returns an empty vector and creates no entry, and
\* data returns the index.
C10_QueriesChangeNothing ==
    [][op' \in Queries =>
           /\ table' = table
           /\ op' = "get_command_parametars" /\ command' \notin DOMAIN table =>
                  vec' = <<>> /\ ~is_command_present(table', command')
           /\ op' = "is_command_present" => (ret' <=> command' \in DOMAIN table)
           /\ op' = "data" => view' = table]_vars

\* The parameters of a name that is no key were asked of a non-empty index.
C10_Witness ==
    /\ op = "get_command_parametars"
    /\ command \notin DOMAIN table
    /\ table # EmptyTable

====
